---- MODULE Spec2Model ----
(***************************************************************************)
(* Cartero: the collection registry kept in the "open-collections"        *)
(* setting, the sidebar tree roots that mirror it, and the window         *)
(* operations that open, create and close collections (src/src/win.rs).   *)
(***************************************************************************)
EXTENDS Integers, Sequences, FiniteSets, TLC

VARIABLES
    phase,        \* "new" until CarteroWindow::new has run finish_init, then "ready"
    stored,       \* settings key "open-collections": Vec<String>
    lastDirOpen,  \* settings key "last-directory-open-collection": Option<String>
    lastDirNew,   \* settings key "last-directory-new-collection": Option<String>
    saved,        \* paths that save_collection has written a collection file to
    roots,        \* root ListStore of the sidebar's TreeListModel
    pc,           \* position of every open-collection task (glib::spawn_future_local)
    last,         \* the call that ended last, and what it did
    overlap       \* the tasks suspended while the open task that returned last ran

vars == <<phase, stored, lastDirOpen, lastDirNew, saved, roots, pc, last, overlap>>

VARIABLES
    cname,        \* Collection.name of the collection under edit
    variables,    \* Collection.variables: ListStore of KeyValueItem
    added,        \* the items handed to add_variable since the collection was made
    pure,         \* no variable_del has removed an item since it was made
    eret          \* the Collection method that returned last, and its result

evars == <<cname, variables, added, pure, eret>>

VARIABLES
    nodes,        \* TreeListModel: per root, its expanded flag and cached child model
    panes,        \* the weak reference each CollectionPane's save closure holds
    crashed,      \* a signal handler or a property setter panicked
    tlast         \* the tree or pane handler that ran last, and what it sent

tvars == <<nodes, panes, crashed, tlast>>

----------------------------------------------------------------------------
(* Bounds *)

\* Number of open-collection tasks that can be suspended in a dialog at once.
NumTasks == 2

\* Most variables a collection is given.
MaxVars == 3

\* Most roots the sidebar tree is given.
MaxRoots == 2

\* Most weak references the open panes hold at once.
MaxPanes == 1

Tasks == 1..NumTasks

----------------------------------------------------------------------------
(* Values *)

None == [some |-> FALSE]
Some(v) == [some |-> TRUE, val |-> v]

\* A path component that is not valid UTF-8.
NonUtf8 == "\\xFF"

\* std::path::Path values the dialogs can deliver, as component sequences.
Paths == { <<"a", "x">>, <<"a", "y">>, <<"b">>, <<"a", NonUtf8>> }

\* The paths the new-collection window can hand to finish_create_collection.
CreatePaths == { <<"a", "x">>, <<"a", "y">> }

\* Path::to_str: Some(string) exactly when every component is valid UTF-8.
to_str(path) ==
    IF \A i \in 1..Len(path) : path[i] # NonUtf8 THEN Some(path) ELSE None

\* Path::parent: the path without its last component, None for the root.
parent(path) ==
    IF Len(path) = 0 THEN None ELSE Some(SubSeq(path, 1, Len(path) - 1))

\* path.parent().and_then(Path::to_str)
parent_str(path) ==
    IF parent(path).some THEN to_str(parent(path).val) ELSE None

\* The strings that can be entries of the open-collections list.
PathStrings == { to_str(p).val : p \in { q \in Paths : to_str(q).some } }

NoDup(list) == \A i, j \in 1..Len(list) : list[i] = list[j] => i = j

RECURSIVE ListsOver(_)
\* Every duplicate-free list of the strings in S.
ListsOver(S) ==
    IF S = {} THEN { <<>> }
    ELSE { <<>> } \cup
         UNION { { <<x>> \o l : l \in ListsOver(S \ {x}) } : x \in S }

----------------------------------------------------------------------------
(* Collaborators *)

\* gio::Settings::set: the key takes the new value when it is writable and
\* keeps its old value when the store rejects the write.
settings_set(old, new, writable) == IF writable THEN new ELSE old

\* Outcome of a settings.set call, as the caller's Result sees it.
set_result(writable) == IF writable THEN "ok" ELSE "rejected"

\* A root node of the sidebar tree: the collection opened from a path.
Collection(path_string) == [path |-> path_string]

\* Variant: a collection is not appended when it is a root already.
append_collection_unique(rts, col) ==
    IF \E i \in 1..Len(rts) : rts[i] = col THEN rts ELSE Append(rts, col)

\* CollectionTree::append_collection: root_model.append(col).
append_collection(rts, col) == Append(rts, col)

RECURSIVE insert_collections(_, _)
\* CollectionTree::insert_collections: append every collection, in order.
insert_collections(rts, cols) ==
    IF cols = <<>> THEN rts
    ELSE insert_collections(append_collection(rts, Head(cols)), Tail(cols))

\* Variant: the rebuild stops after the first entry of the list.
sync_collections_first(open_collections) ==
    insert_collections(<<>>,
        [i \in 1..(IF open_collections = <<>> THEN 0 ELSE 1) |->
            Collection(open_collections[i])])

\* Variant: the roots are built from the last entry of the list to the first.
sync_collections_reversed(open_collections) ==
    insert_collections(<<>>,
        [i \in 1..Len(open_collections) |->
            Collection(open_collections[Len(open_collections) + 1 - i])])

\* Sidebar::sync_collections(settings): rebuild the root sequence from the
\* stored open-collections list, one root per entry, in the list's order.
sync_collections(open_collections) ==
    insert_collections(<<>>,
        [i \in 1..Len(open_collections) |-> Collection(open_collections[i])])

\* The paths the root sequence shows, read back in display order.
RootPaths(rts) == [i \in 1..Len(rts) |-> rts[i].path]

Range(list) == { list[i] : i \in 1..Len(list) }

----------------------------------------------------------------------------
(* Registry operations of the window *)

\* Variant: only the most recent entry is compared.
already_in_last(value, new_path_str) ==
    Len(value) > 0 /\ value[Len(value)] = new_path_str

\* value.iter().any(|s| s == &new_path_str)
already_in(value, new_path_str) ==
    \E i \in 1..Len(value) : value[i] = new_path_str

\* Variant: the new entry is put in front.
push_front(value, new_path_str) == <<new_path_str>> \o value

\* value.push(new_path_str)
push(value, new_path_str) == Append(value, new_path_str)

\* open_collections.retain(|p| p != path)
retain(open_collections, path) ==
    SelectSeq(open_collections, LAMBDA p : p # path)

\* What a call leaves behind: the two things it can change and its report.
Outcome(st, rts, write, synced, result) ==
    [stored |-> st, roots |-> rts, write |-> write, synced |-> synced,
     result |-> result]

\* Variant: no duplicate check before the push.
finish_open_collection_nocheck(path, writable) ==
    LET new_path == to_str(path)
    IN  IF ~new_path.some
        THEN Outcome(stored, roots, "none", FALSE, "FileDialogError")
        ELSE LET written == settings_set(stored, push(stored, new_path.val), writable)
             IN  IF set_result(writable) = "rejected"
                 THEN Outcome(written, roots, "rejected", FALSE, "FileDialogError")
                 ELSE Outcome(written, sync_collections(written), "ok", TRUE, "Ok")

\* CarteroWindow::finish_open_collection(path), run against the current
\* settings and sidebar; writable tells whether the store accepts the list.
finish_open_collection(path, writable) ==
    LET value == stored
        new_path == to_str(path)
    IN  IF ~new_path.some
        THEN Outcome(stored, roots, "none", FALSE, "FileDialogError")
        ELSE IF already_in(value, new_path.val)
        THEN Outcome(stored, roots, "none", FALSE, "AlreadyOpened")
        ELSE LET written == settings_set(stored, push(value, new_path.val), writable)
             IN  IF set_result(writable) = "rejected"
                 THEN Outcome(written, roots, "rejected", FALSE, "FileDialogError")
                 ELSE Outcome(written, sync_collections(written), "ok", TRUE, "Ok")

\* Whether the string of path was an entry of the list when the call began.
Present(path) == to_str(path).some /\ to_str(path).val \in Range(stored)

\* The record of a completed call: its entry point and argument, whether it
\* reached finish_open_collection, whether its path was in the list when it
\* began, the outcome of its write of the list, whether it resynchronized the
\* sidebar, and what it returned.
Done(op, path, open, present, out) ==
    [op |-> op, path |-> path, open |-> open, present |-> present,
     write |-> out.write, synced |-> out.synced, result |-> out.result]

----------------------------------------------------------------------------
(* Entity model: a collection and its variables (objects/collection.rs) *)

\* A KeyValueItem object by its four properties.
KeyValueItem(name, value, active, secret) ==
    [header_name |-> name, header_value |-> value,
     active |-> active, secret |-> secret]

\* The items handed to add_variable.
Items == { KeyValueItem("token", "12341234", TRUE, TRUE),
           KeyValueItem("", "", FALSE, FALSE),
           KeyValueItem("host", "localhost", TRUE, FALSE) }

\* The titles collections are made with.
Titles == { "PokeAPI", "httpbin.org" }

\* The u32 positions handed to variable_get and variable_del: every index of
\* the sequence and some past its end.
Positions == 0..(MaxVars + 1)

\* Variant: the item is inserted in front.
add_variable_front(vs, var) == <<var>> \o vs

\* Collection::add_variable: self.variables().append(var)
add_variable(vs, var) == Append(vs, var)

\* Collection::variable_count: self.variables().n_items()
variable_count(vs) == Len(vs)

\* A u32 count as a returned value.
Count(n) == [count |-> n]

\* Collection::variable_get: self.variables().item(pos), None past the end.
variable_get(vs, pos) ==
    IF pos < Len(vs) THEN Some(vs[pos + 1]) ELSE None

\* ListStore::remove(pos): the items before pos, then those after it.
remove(vs, pos) ==
    SubSeq(vs, 1, pos) \o SubSeq(vs, pos + 2, Len(vs))

\* Variant: the item after the one returned is removed.
variable_del_next(vs, pos) ==
    IF variable_get(vs, pos).some
    THEN [variables |-> remove(vs, IF pos + 1 < Len(vs) THEN pos + 1 ELSE 0),
          value |-> variable_get(vs, pos)]
    ELSE [variables |-> vs, value |-> None]

\* Variant: a position past the end is clamped to the last item.
variable_del_clamped(vs, pos) ==
    IF vs = <<>> THEN [variables |-> vs, value |-> None]
    ELSE LET at == IF pos < Len(vs) THEN pos ELSE Len(vs) - 1
         IN  [variables |-> remove(vs, at), value |-> Some(vs[at + 1])]

\* Collection::variable_del: the sequence it leaves and the value it returns.
variable_del(vs, pos) ==
    IF variable_get(vs, pos).some
    THEN [variables |-> remove(vs, pos), value |-> variable_get(vs, pos)]
    ELSE [variables |-> vs, value |-> None]

\* The record of a Collection method that returned.
Ret(op, pos, value) == [op |-> op, pos |-> pos, value |-> value]

\* No collection is under edit (the registry and tree specifications).
EntityIdle ==
    /\ cname = ""
    /\ variables = <<>>
    /\ added = <<>>
    /\ pure = TRUE
    /\ eret = Ret("none", None, None)

----------------------------------------------------------------------------
(* Tree model of the sidebar: node state (widgets/collection_tree.rs) *)

\* The collection files behind the paths: the name and the variables of the
\* collection that the file codec reads from each.
name_of(col) ==
    IF col.path = <<"b">> THEN "pokeapi" ELSE "httpbin.org"

variables_of(col) ==
    CASE col.path = <<"a", "x">> ->
             << KeyValueItem("token", "12341234", TRUE, TRUE),
                KeyValueItem("host", "localhost", TRUE, FALSE) >>
      [] col.path = <<"a", "y">> -> << >>
      [] OTHER -> << KeyValueItem("host", "localhost", TRUE, FALSE) >>

\* The collections the sidebar can be given.
Collections == { Collection(s) : s \in PathStrings }

\* A glib::Object in the tree, with its type.
Object(type, obj) == [type |-> type, obj |-> obj]

\* The item init_tree_model makes for the child model of a root.
Placeholder == KeyValueItem("hola", "hola", FALSE, FALSE)

\* The types of the objects a tree model can be asked about.
ObjectTypes == { "Collection", "KeyValueItem", "Endpoint" }

\* Variant: every object is given a child model.
create_func_any(obj) == Some(<< Object("KeyValueItem", Placeholder) >>)

\* The create_func closure of init_tree_model: a child model for a
\* Collection, none for anything else.
create_func(obj) ==
    IF obj.type = "Collection"
    THEN Some(<< Object("KeyValueItem", Placeholder) >>)
    ELSE None

\* A node with no child model; sub holds the nodes of the child model's
\* items while there is one.
Collapsed == [expanded |-> FALSE, children |-> None, sub |-> << >>]

\* TreeListModel::new(root_model, passthrough, autoexpand, create_func)
passthrough == FALSE
autoexpand_on == TRUE
autoexpand == FALSE

RECURSIVE set_expanded(_, _, _)

\* The state of the node the TreeListModel makes for an item of a model.
NodeFor(obj) ==
    IF autoexpand THEN set_expanded(Collapsed, obj, TRUE) ELSE Collapsed

\* The nodes made for the items of a new child model.
SubNodes(model) == [k \in 1..Len(model) |-> NodeFor(model[k])]

\* Variant: collapsing keeps the child model cached.
set_expanded_keep(node, obj, expanded) ==
    IF expanded /\ ~node.expanded
    THEN IF node.children.some THEN [node EXCEPT !.expanded = TRUE]
         ELSE LET model == create_func(obj)
              IN  IF model.some
                  THEN [expanded |-> TRUE, children |-> model,
                        sub |-> [k \in 1..Len(model.val) |-> Collapsed]]
                  ELSE node
    ELSE IF ~expanded /\ node.expanded
    THEN [node EXCEPT !.expanded = FALSE]
    ELSE node

\* TreeListRow::set_expanded: expanding asks create_func for the child model
\* and keeps it when there is one; collapsing drops the child model.
set_expanded(node, obj, expanded) ==
    IF expanded /\ ~node.expanded
    THEN LET model == create_func(obj)
         IN  IF model.some
             THEN [expanded |-> TRUE, children |-> model,
                   sub |-> SubNodes(model.val)]
             ELSE node
    ELSE IF ~expanded /\ node.expanded
    THEN Collapsed
    ELSE node

\* The state of the node the TreeListModel makes for a new root.
NewNode(col) == NodeFor(Object("Collection", col))

\* The node states after the root model was rebuilt: one new node per root.
NewNodes(rts) == [i \in 1..Len(rts) |-> NewNode(rts[i])]

\* A TreeListRow of the flat view. item is what TreeListRow::item() gives:
\* the object of the row, or None once that object was removed under it.
Row(item, depth, expanded, root) ==
    [item |-> item, depth |-> depth, expanded |-> expanded, root |-> root]

RECURSIVE SubRows(_, _, _, _)
\* The rows below an expanded node, from its k-th child on: each child at
\* the given depth, followed by the rows below that child.
SubRows(node, depth, root, k) ==
    IF ~(node.expanded /\ node.children.some) THEN << >>
    ELSE IF k > Len(node.children.val) THEN << >>
    ELSE << Row(Some(node.children.val[k]), depth, node.sub[k].expanded, root) >>
         \o SubRows(node.sub[k], depth + 1, root, 1)
         \o SubRows(node, depth, root, k + 1)

\* The rows under root i: its cached children while it is expanded.
ChildRows(nds, i) == SubRows(nds[i], 1, i, 1)

RECURSIVE SubAddrs(_, _, _)
\* The node of every row of SubRows, as the child indexes that lead to it.
SubAddrs(node, addr, k) ==
    IF ~(node.expanded /\ node.children.some) THEN << >>
    ELSE IF k > Len(node.children.val) THEN << >>
    ELSE << Append(addr, k) >>
         \o SubAddrs(node.sub[k], Append(addr, k), 1)
         \o SubAddrs(node, addr, k + 1)

RECURSIVE AddrsFrom(_, _, _)
AddrsFrom(rts, nds, i) ==
    IF i > Len(rts) THEN << >>
    ELSE << << >> >> \o SubAddrs(nds[i], << >>, 1) \o AddrsFrom(rts, nds, i + 1)

\* The node each row of the flat view stands for: the child indexes that
\* lead to it from its root, empty for the root itself.
Addrs(rts, nds) == AddrsFrom(rts, nds, 1)

RECURSIVE toggle(_, _, _)
\* row.set_expanded(!row.is_expanded()) on the node at addr below node.
toggle(node, obj, addr) ==
    IF addr = << >> THEN set_expanded(node, obj, ~node.expanded)
    ELSE [node EXCEPT
            !.sub[Head(addr)] =
                toggle(@, node.children.val[Head(addr)], Tail(addr))]

RECURSIVE RowsFrom(_, _, _)
RowsFrom(rts, nds, i) ==
    IF i > Len(rts) THEN << >>
    ELSE << Row(Some(Object("Collection", rts[i])), 0, nds[i].expanded, i) >>
         \o ChildRows(nds, i) \o RowsFrom(rts, nds, i + 1)

\* The flat view the TreeListModel gives the ListView: every root's row,
\* each followed by its child rows.
Rows(rts, nds) == RowsFrom(rts, nds, 1)

\* The positions a row activation can carry: every row and one past the most.
RowPositions == 0..(2 * MaxRoots)

\* What an activation did: the panic, the collection handed to
\* open_collection_pane, and the signals sent for a collection and for a leaf.
Activation(type, panic, opened, open_collection, open_leaf) ==
    [type |-> type, panic |-> panic, opened |-> opened,
     open_collection |-> open_collection, open_leaf |-> open_leaf]

\* Variant: the row is unwrapped without the check that the position has one.
on_activate_unchecked(rows, pos) ==
    IF pos >= Len(rows)
    THEN Activation("none", TRUE, None, 0, 0)
    ELSE LET item == rows[pos + 1].item.val
         IN  IF item.type = "Collection"
             THEN Activation("Collection", FALSE, Some(item.obj), 1, 0)
             ELSE Activation(item.type, FALSE, None, 0, 0)

\* CollectionTree::on_activate(list, pos). The rows are those the ListView's
\* model holds when the handler runs: a row whose item was removed is at no
\* position any more, so model.item(pos) gives the row that took its place,
\* or None past the end.
on_activate(rows, pos) ==
    IF pos >= Len(rows)
    THEN Activation("none", FALSE, None, 0, 0)
    ELSE LET row == rows[pos + 1]
         IN  IF ~row.item.some
             THEN Activation("none", TRUE, None, 0, 0)
             ELSE LET item == row.item.val
                  IN  IF item.type = "Collection"
                      THEN Activation("Collection", FALSE, Some(item.obj), 1, 0)
                      ELSE IF item.type = "KeyValueItem"
                      THEN Activation("KeyValueItem", FALSE, None, 0, 0)
                      ELSE Activation(item.type, FALSE, None, 0, 0)

\* collection.downgrade(): a weak reference to a collection object, which is
\* alive since a row of the root model has just handed it out.
downgrade(col) == [col |-> col, alive |-> TRUE]

\* A weak reference whose object lost its last owner: it refers to nothing.
Released == [alive |-> FALSE]

\* saved_collection.upgrade(): the collection while an owner holds it.
upgrade(weak) == IF weak.alive THEN Some(weak.col) ELSE None

\* The save-requested closure of open_collection_pane.
save_requested(weak) ==
    IF upgrade(weak).some THEN "saved" ELSE "panic"

\* What is kept about the open tasks around the last step: the tasks that
\* were suspended in their dialogs while the open task that returned last ran
\* and have stayed so, and whether the step was the return of a task that had
\* been suspended while the call before it, a task given the same folder, ran.
Overlap(waiting, raced) == [waiting |-> waiting, raced |-> raced]

\* The call that returned last was no open task, or none was suspended then.
NoOverlap == Overlap({}, FALSE)

\* No tree handler has run (the registry and entity specifications).
TreeIdle ==
    /\ panes = {}
    /\ crashed = FALSE
    /\ tlast = [op |-> "none"]

\* The window is up with nothing opened (the entity and tree specifications).
RegistryIdle ==
    /\ phase = "ready"
    /\ stored = <<>>
    /\ lastDirOpen = None
    /\ lastDirNew = None
    /\ saved = {}
    /\ pc = [t \in Tasks |-> "idle"]
    /\ last = [op |-> "new", path |-> None, open |-> FALSE,
               present |-> FALSE, write |-> "none",
               synced |-> FALSE, result |-> "Ok"]
    /\ overlap = NoOverlap

----------------------------------------------------------------------------
(* Initial state and actions *)

Init ==
    /\ phase = "new"
    /\ stored \in ListsOver(PathStrings)
    /\ lastDirOpen = None
    /\ lastDirNew = None
    /\ saved = {}
    /\ roots = <<>>
    /\ pc = [t \in Tasks |-> "idle"]
    /\ last = [op |-> "new", path |-> None, open |-> FALSE,
               present |-> FALSE, write |-> "none",
               synced |-> FALSE, result |-> "Ok"]
    /\ overlap = NoOverlap
    /\ nodes = <<>>
    /\ TreeIdle
    /\ EntityIdle

\* CarteroWindow::new -> finish_init -> init_sidebar
InitSidebar ==
    /\ phase = "new"
    /\ phase' = "ready"
    /\ roots' = sync_collections(stored)
    /\ last' = Done("init_sidebar", None, FALSE, FALSE,
                    Outcome(stored, roots', "none", TRUE, "Ok"))
    /\ nodes' = NewNodes(roots')
    /\ UNCHANGED <<stored, lastDirOpen, lastDirNew, saved, pc>>
    /\ overlap' = NoOverlap
    /\ UNCHANGED <<evars, panes, crashed, tlast>>

\* win.open-collection activated: the task runs up to the folder dialog's await.
TriggerOpenCollection(t) ==
    /\ phase = "ready"
    /\ pc[t] = "idle"
    /\ pc' = [pc EXCEPT ![t] = "dialog"]
    /\ UNCHANGED <<phase, stored, lastDirOpen, lastDirNew, saved, roots, last>>
    /\ overlap' = Overlap(overlap.waiting, FALSE)
    /\ UNCHANGED nodes
    /\ UNCHANGED <<evars, panes, crashed, tlast>>

\* Variant: the remembered directory is written before the dialog's result is
\* looked at, so a dismissed dialog clears it.
DialogCancelForget(t) ==
    /\ pc[t] = "dialog"
    /\ pc' = [pc EXCEPT ![t] = "idle"]
    /\ lastDirOpen' = None
    /\ last' = Done("trigger_open_collection", None, FALSE, FALSE,
                    Outcome(stored, roots, "none", FALSE, "FileDialogError"))
    /\ UNCHANGED <<phase, stored, lastDirNew, saved, roots>>
    /\ overlap' = NoOverlap
    /\ UNCHANGED nodes
    /\ UNCHANGED <<evars, panes, crashed, tlast>>

\* The dialog resolves with an error (the user dismissed it).
DialogCancel(t) ==
    /\ pc[t] = "dialog"
    /\ pc' = [pc EXCEPT ![t] = "idle"]
    /\ last' = Done("trigger_open_collection", None, FALSE, FALSE,
                    Outcome(stored, roots, "none", FALSE, "FileDialogError"))
    /\ UNCHANGED <<phase, stored, lastDirOpen, lastDirNew, saved, roots>>
    /\ overlap' = NoOverlap
    /\ UNCHANGED nodes
    /\ UNCHANGED <<evars, panes, crashed, tlast>>

\* Variant: the folder's parent is remembered only once the codec has read
\* the collection.
ResumeCodecFirst(t, path, dirWritable, codecOk, listWritable) ==
    /\ pc[t] = "dialog"
    /\ pc' = [pc EXCEPT ![t] = "idle"]
    /\ lastDirOpen' = IF codecOk
                      THEN settings_set(lastDirOpen, parent_str(path), dirWritable)
                      ELSE lastDirOpen
    /\ LET out == IF codecOk
                  THEN finish_open_collection(path, listWritable)
                  ELSE Outcome(stored, roots, "none", FALSE, "CodecError")
       IN  /\ stored' = out.stored
           /\ roots' = out.roots
           /\ last' = Done("trigger_open_collection", Some(path), codecOk,
                           codecOk /\ Present(path), out)
           /\ nodes' = IF out.synced THEN NewNodes(out.roots) ELSE nodes
    /\ UNCHANGED <<phase, lastDirNew, saved>>
    /\ UNCHANGED <<evars, panes, crashed, tlast>>

\* trigger_open_collection from the dialog's await on, the dialog having
\* resolved with a folder: remember its parent, read the collection with the
\* file codec and register it.
Resume(t, path, dirWritable, codecOk, listWritable) ==
    /\ pc[t] = "dialog"
    /\ pc' = [pc EXCEPT ![t] = "idle"]
    /\ lastDirOpen' = settings_set(lastDirOpen, parent_str(path), dirWritable)
    /\ LET out == IF codecOk
                  THEN finish_open_collection(path, listWritable)
                  ELSE Outcome(stored, roots, "none", FALSE, "CodecError")
       IN  /\ stored' = out.stored
           /\ roots' = out.roots
           /\ last' = Done("trigger_open_collection", Some(path), codecOk,
                           codecOk /\ Present(path), out)
           /\ nodes' = IF out.synced THEN NewNodes(out.roots) ELSE nodes
    /\ UNCHANGED <<phase, lastDirNew, saved>>
    /\ UNCHANGED <<evars, panes, crashed, tlast>>

\* The dialog of task t resolves with a file that has no local path:
\* result.path() is None and its unwrap panics, before any setting is
\* written. The panic ends the task; the window and the other tasks go on.
DialogSelectNoPath(t) ==
    /\ pc[t] = "dialog"
    /\ pc' = [pc EXCEPT ![t] = "idle"]
    /\ last' = Done("trigger_open_collection", None, FALSE, FALSE,
                    Outcome(stored, roots, "none", FALSE, "Panic"))
    /\ UNCHANGED <<phase, stored, lastDirOpen, lastDirNew, saved, roots>>
    /\ overlap' = NoOverlap
    /\ UNCHANGED nodes
    /\ UNCHANGED <<evars, panes, crashed, tlast>>

\* The dialog of task t resolves with a folder.
DialogSelect(t, path, dirWritable, codecOk, listWritable) ==
    /\ Resume(t, path, dirWritable, codecOk, listWritable)
    /\ UNCHANGED overlap

\* Variant: the duplicate check is made first, and the collection file is
\* written only for a path that is not in the list.
FinishCreateCollectionCheckFirst(path, dirWritable, saveOk, listWritable) ==
    /\ phase = "ready"
    /\ lastDirNew' = IF parent(path).some
                     THEN settings_set(lastDirNew, to_str(parent(path).val), dirWritable)
                     ELSE lastDirNew
    /\ saved' = IF saveOk /\ ~Present(path) THEN saved \cup {path} ELSE saved
    /\ LET out == IF saveOk \/ Present(path)
                  THEN finish_open_collection(path, listWritable)
                  ELSE Outcome(stored, roots, "none", FALSE, "SaveError")
       IN  /\ stored' = out.stored
           /\ roots' = out.roots
           /\ last' = Done("finish_create_collection", Some(path),
                           saveOk \/ Present(path), Present(path), out)
           /\ nodes' = IF out.synced THEN NewNodes(out.roots) ELSE nodes
    /\ UNCHANGED <<phase, lastDirOpen, pc>>
    /\ overlap' = NoOverlap
    /\ UNCHANGED <<evars, panes, crashed, tlast>>

\* CarteroWindow::finish_create_collection(path)
FinishCreateCollection(path, dirWritable, saveOk, listWritable) ==
    /\ phase = "ready"
    /\ lastDirNew' = IF parent(path).some
                     THEN settings_set(lastDirNew, to_str(parent(path).val), dirWritable)
                     ELSE lastDirNew
    /\ saved' = IF saveOk THEN saved \cup {path} ELSE saved
    /\ LET out == IF saveOk
                  THEN finish_open_collection(path, listWritable)
                  ELSE Outcome(stored, roots, "none", FALSE, "SaveError")
       IN  /\ stored' = out.stored
           /\ roots' = out.roots
           /\ last' = Done("finish_create_collection", Some(path), saveOk,
                           saveOk /\ Present(path), out)
           /\ nodes' = IF out.synced THEN NewNodes(out.roots) ELSE nodes
    /\ UNCHANGED <<phase, lastDirOpen, pc>>
    /\ overlap' = NoOverlap
    /\ UNCHANGED <<evars, panes, crashed, tlast>>

\* CarteroWindow::close_collection(path)
CloseCollection(path, writable) ==
    /\ phase = "ready"
    /\ LET open_collections == retain(stored, path)
       IN  stored' = settings_set(stored, open_collections, writable)
    /\ roots' = sync_collections(stored')
    /\ last' = Done("close_collection", Some(path), FALSE, path \in Range(stored),
                    Outcome(stored', roots', set_result(writable), TRUE, "Ok"))
    /\ nodes' = NewNodes(roots')
    /\ UNCHANGED <<phase, lastDirOpen, lastDirNew, saved, pc>>
    /\ overlap' = NoOverlap
    /\ UNCHANGED <<evars, panes, crashed, tlast>>

\* The slot a newly spawned open-collection task takes: the lowest free one.
\* The tasks of the code have no names; a slot names a task while it lives.
FreeSlot ==
    { t \in Tasks : pc[t] = "idle" /\ \A u \in 1..(t - 1) : pc[u] # "idle" }

\* The answers of the settings store to a call that sets a key holding old
\* to new: where the two are equal, both answers leave the same.
DirAnswers(old, new) == IF old = new THEN {TRUE} ELSE BOOLEAN

\* The answers of the settings store to a call given path that got its
\* collection: only a call that reaches the write of the list is answered.
ListAnswers(path, got) ==
    IF got /\ to_str(path).some /\ ~already_in(stored, to_str(path).val)
    THEN BOOLEAN
    ELSE {TRUE}

Next ==
    \/ InitSidebar
    \/ \E t \in FreeSlot : TriggerOpenCollection(t)
    \/ \E t \in Tasks : DialogCancel(t)
    \/ \E t \in Tasks : DialogSelectNoPath(t)
    \/ \E t \in Tasks, path \in Paths, codecOk \in BOOLEAN :
         \E dirWritable \in DirAnswers(lastDirOpen, parent_str(path)) :
           \E listWritable \in ListAnswers(path, codecOk) :
             DialogSelect(t, path, dirWritable, codecOk, listWritable)
    \/ \E path \in CreatePaths, saveOk \in BOOLEAN :
         \E dirWritable \in DirAnswers(lastDirNew, parent_str(path)) :
           \E listWritable \in ListAnswers(path, saveOk) :
             FinishCreateCollection(path, dirWritable, saveOk, listWritable)
    \/ \E path \in PathStrings, writable \in BOOLEAN : CloseCollection(path, writable)

Spec == Init /\ [][Next]_vars

----------------------------------------------------------------------------
(* The open-collection tasks, with the overlaps of their suspensions kept *)

\* The dialog of task t resolves with a folder; the tasks left suspended are
\* noted, and whether t was suspended while the call that returned before
\* it, a task given the same folder, ran.
DialogSelectOverlapped(t, path, dirWritable, codecOk, listWritable) ==
    /\ Resume(t, path, dirWritable, codecOk, listWritable)
    /\ overlap' = Overlap({ u \in Tasks \ {t} : pc[u] = "dialog" },
                          /\ t \in overlap.waiting
                          /\ last.op = "trigger_open_collection"
                          /\ last.path = Some(path))

TasksNext ==
    \/ InitSidebar
    \/ \E t \in FreeSlot : TriggerOpenCollection(t)
    \/ \E t \in Tasks : DialogCancel(t)
    \/ \E t \in Tasks : DialogSelectNoPath(t)
    \/ \E t \in Tasks, path \in Paths, codecOk \in BOOLEAN :
         \E dirWritable \in DirAnswers(lastDirOpen, parent_str(path)) :
           \E listWritable \in ListAnswers(path, codecOk) :
             DialogSelectOverlapped(t, path, dirWritable, codecOk, listWritable)
    \/ \E path \in CreatePaths, saveOk \in BOOLEAN :
         \E dirWritable \in DirAnswers(lastDirNew, parent_str(path)) :
           \E listWritable \in ListAnswers(path, saveOk) :
             FinishCreateCollection(path, dirWritable, saveOk, listWritable)
    \/ \E path \in PathStrings, writable \in BOOLEAN : CloseCollection(path, writable)

SpecTasks == Init /\ [][TasksNext]_vars

----------------------------------------------------------------------------
(* The entity model on its own: one collection and its variables *)

EInit ==
    /\ cname \in Titles
    /\ variables = <<>>
    /\ added = <<>>
    /\ pure = TRUE
    /\ eret = Ret("new_with_title", None, None)
    /\ RegistryIdle
    /\ roots = <<>>
    /\ nodes = <<>>
    /\ TreeIdle

\* Collection::new_with_title(name): a collection with an empty variable store.
NewWithTitle(name) ==
    /\ ~crashed
    /\ cname' = name
    /\ variables' = <<>>
    /\ added' = <<>>
    /\ pure' = TRUE
    /\ eret' = Ret("new_with_title", None, None)
    /\ UNCHANGED <<vars, tvars>>

\* collection.set_name(name): the setter of the name property; the variables
\* stay as they are.
SetName(name) ==
    /\ ~crashed
    /\ cname' = name
    /\ eret' = Ret("set_name", None, None)
    /\ UNCHANGED <<variables, added, pure, vars, tvars>>

\* collection.set_variables(store): the setter of the variables property, a
\* OnceCell that new_with_title has filled already; setting it again panics.
SetVariables ==
    /\ ~crashed
    /\ crashed' = TRUE
    /\ UNCHANGED <<evars, vars, nodes, panes, tlast>>

\* collection.add_variable(&var)
AddVariable(var) ==
    /\ ~crashed
    /\ Len(variables) < MaxVars
    /\ variables' = add_variable(variables, var)
    /\ added' = IF pure THEN Append(added, var) ELSE added
    /\ eret' = Ret("add_variable", None, None)
    /\ UNCHANGED <<cname, pure, vars, tvars>>

\* collection.variable_count()
VariableCount ==
    /\ ~crashed
    /\ eret' = Ret("variable_count", None, Count(variable_count(variables)))
    /\ UNCHANGED <<cname, variables, added, pure, vars, tvars>>

\* collection.variable_get(pos)
VariableGet(pos) ==
    /\ ~crashed
    /\ eret' = Ret("variable_get", Some(pos), variable_get(variables, pos))
    /\ UNCHANGED <<cname, variables, added, pure, vars, tvars>>

\* collection.variable_del(pos)
VariableDel(pos) ==
    /\ ~crashed
    /\ LET out == variable_del(variables, pos)
       IN  /\ variables' = out.variables
           /\ eret' = Ret("variable_del", Some(pos), out.value)
           /\ pure' = (pure /\ out.variables = variables)
           /\ added' = IF pure' THEN added ELSE <<>>
    /\ UNCHANGED <<cname, vars, tvars>>

ENext ==
    \/ \E name \in Titles : NewWithTitle(name)
    \/ \E name \in Titles : SetName(name)
    \/ SetVariables
    \/ \E var \in Items : AddVariable(var)
    \/ VariableCount
    \/ \E pos \in Positions : VariableGet(pos)
    \/ \E pos \in Positions : VariableDel(pos)

SpecEntity == EInit /\ [][ENext]_<<evars, crashed>>

----------------------------------------------------------------------------
(* The sidebar tree on its own: roots, expansion, activation, panes *)

treevars == <<stored, roots, nodes, panes, crashed, tlast>>

TInit ==
    /\ RegistryIdle
    /\ roots = <<>>
    /\ nodes = <<>>
    /\ TreeIdle
    /\ EntityIdle

TFrame ==
    UNCHANGED <<phase, lastDirOpen, lastDirNew, saved, pc, last, overlap, evars>>

\* tree.append_collection(&col)
AppendCollection(col) ==
    /\ ~crashed
    /\ Len(roots) < MaxRoots
    /\ roots' = append_collection(roots, col)
    /\ nodes' = nodes \o NewNodes(SubSeq(roots', Len(roots) + 1, Len(roots')))
    /\ tlast' = [op |-> "append_collection", cols |-> <<col>>]
    /\ UNCHANGED <<stored, panes, crashed>>
    /\ TFrame

\* tree.insert_collections(&cols)
InsertCollections(cols) ==
    /\ ~crashed
    /\ Len(roots) + Len(cols) <= MaxRoots
    /\ roots' = insert_collections(roots, cols)
    /\ nodes' = nodes \o NewNodes(SubSeq(roots', Len(roots) + 1, Len(roots')))
    /\ tlast' = [op |-> "insert_collections", cols |-> cols]
    /\ UNCHANGED <<stored, panes, crashed>>
    /\ TFrame

\* The open-collections setting now holds list and the sidebar is
\* resynchronized to it, as at the end of an open or a close. The root
\* model lets go of the objects it held: those in kept stay alive, with the
\* rebuilt root model or with another owner, the others are released.
SyncCollections(list, kept) ==
    /\ ~crashed
    /\ stored' = list
    /\ roots' = sync_collections(stored')
    /\ nodes' = NewNodes(roots')
    /\ panes' = { IF weak \in kept THEN weak ELSE Released : weak \in panes }
    /\ tlast' = [op |-> "sync_collections", rows |-> Len(Rows(roots, nodes))]
    /\ UNCHANGED crashed
    /\ TFrame

\* The expander of the row at pos is clicked: row.set_expanded(!row.expanded)
ToggleExpand(pos) ==
    /\ ~crashed
    /\ pos < Len(Rows(roots, nodes))
    /\ LET row == Rows(roots, nodes)[pos + 1]
           i == row.root
       IN  /\ nodes' = [nodes EXCEPT
                          ![i] = toggle(@, Object("Collection", roots[i]),
                                        Addrs(roots, nodes)[pos + 1])]
           /\ tlast' = [op |-> "toggle", pos |-> pos, root |-> i,
                        built |-> ~row.expanded /\ create_func(row.item.val).some]
    /\ UNCHANGED <<stored, roots, panes, crashed>>
    /\ TFrame

\* The ListView activates position pos: on_activate, and for a collection
\* CarteroWindow::open_collection_pane. removed tells that pos held a row
\* until the resynchronization that ran just before took it away.
Activate(pos) ==
    /\ ~crashed
    /\ LET act == on_activate(Rows(roots, nodes), pos)
       IN  /\ panes' = IF act.opened.some
                       THEN panes \cup { downgrade(act.opened.val) }
                       ELSE panes
           /\ Cardinality(panes') <= MaxPanes
           /\ crashed' = act.panic
           /\ tlast' = [op |-> "activate", pos |-> pos, type |-> act.type,
                        removed |-> /\ tlast.op = "sync_collections"
                                    /\ pos < tlast.rows
                                    /\ pos >= Len(Rows(roots, nodes)),
                        open_collection |-> act.open_collection,
                        open_leaf |-> act.open_leaf]
    /\ UNCHANGED <<stored, roots, nodes>>
    /\ TFrame

\* A collection pane emits save-requested.
SaveRequested(weak) ==
    /\ ~crashed
    /\ weak \in panes
    /\ LET result == save_requested(weak)
       IN  /\ crashed' = (result = "panic")
           /\ tlast' = [op |-> "save_requested",
                        alive |-> upgrade(weak).some, result |-> result]
    /\ UNCHANGED <<stored, roots, nodes, panes>>
    /\ TFrame

\* The weak references a pane can hold.
WeakRefs == { downgrade(col) : col \in Collections } \cup { Released }

\* The lists of at most n collections.
ColSeqs(n) == UNION { [1..k -> Collections] : k \in 0..n }

\* The lists insert_collections is given.
RootSeqs == ColSeqs(MaxRoots)

\* The lists the open-collections setting can hold at a resync, when it
\* held list at the one before: list itself (start-up, a refused open, a
\* rejected write), list with a new path pushed (finish_open_collection) and
\* list with a path retained away (close_collection).
SyncLists(list) ==
    {list}
    \cup { push(list, s) : s \in { p \in PathStrings :
                                    ~already_in(list, p) /\ Len(list) < MaxRoots } }
    \cup { retain(list, s) : s \in Range(list) }

TNext ==
    \/ \E col \in Collections : AppendCollection(col)
    \/ \E cols \in RootSeqs : InsertCollections(cols)
    \/ \E list \in SyncLists(stored),
          kept \in { {}, { weak \in panes : weak.alive } } :
           SyncCollections(list, kept)
    \/ \E pos \in RowPositions : ToggleExpand(pos)
    \/ \E pos \in RowPositions : Activate(pos)
    \/ \E weak \in WeakRefs : SaveRequested(weak)

SpecTree == TInit /\ [][TNext]_treevars

----------------------------------------------------------------------------
(* Steps, as the properties below tell them apart *)

\* An open-collection task starts and suspends in its dialog.
Started == \E t \in Tasks : pc[t] = "idle" /\ pc'[t] = "dialog"

\* An open-collection task panics in this step and returns nothing.
Panicked ==
    \E t \in Tasks :
       pc[t] = "dialog" /\ pc'[t] = "idle" /\ last'.result = "Panic"

\* A call returns in this step; last' describes it.
Returned == vars' # vars /\ ~Started /\ ~Panicked

\* finish_open_collection(p) ran in this step.
OpenReturned(p) == Returned /\ last'.open /\ last'.path = Some(p)

\* close_collection(s) ran in this step.
CloseReturned(s) ==
    Returned /\ last'.op = "close_collection" /\ last'.path = Some(s)

\* The task of a dismissed dialog returns in this step.
CancelReturned ==
    /\ ~Panicked
    /\ \E t \in Tasks : pc[t] = "dialog" /\ pc'[t] = "idle" /\ last'.path = None

RECURSIVE Without(_, _)
\* list with every entry equal to s taken out, the others in their order.
Without(list, s) ==
    IF list = <<>> THEN <<>>
    ELSE IF Head(list) = s THEN Without(Tail(list), s)
    ELSE <<Head(list)>> \o Without(Tail(list), s)

Registry == <<stored, lastDirOpen, lastDirNew, saved, roots>>

----------------------------------------------------------------------------
(* Properties *)

\* C1: starting from a list without duplicates, after any sequence of
\* finish_open_collection and close_collection calls the persisted
\* open-collections list holds no path more than once.
C1_NoDuplicates == NoDup(stored)

\* A duplicate open was attempted on a list of two or more entries.
C1_Witness ==
    last.open /\ last.result = "AlreadyOpened" /\ Len(stored) >= 2

\* C2: finish_open_collection on a path already in the persisted list
\* returns AlreadyOpened, writes nothing, leaves the list as it was and does
\* not resynchronize or change the sidebar's roots.
C2_AlreadyOpened ==
    [][\A p \in Paths :
          (OpenReturned(p) /\ to_str(p).some /\ to_str(p).val \in Range(stored))
          => /\ last'.result = "AlreadyOpened"
             /\ last'.write = "none"
             /\ ~last'.synced
             /\ stored' = stored
             /\ roots' = roots]_vars

\* open("A") again on the list ["A"]: refused, the list still has length 1.
C2_Witness ==
    /\ last.open /\ last.present /\ last.result = "AlreadyOpened"
    /\ Len(stored) = 1 /\ Len(roots) = 1

\* C3: finish_open_collection on a path that is not in the persisted list,
\* when the store does not reject the write, returns success and leaves the
\* previous list with the path appended as its last element.
C3_Append ==
    [][\A p \in Paths :
          (/\ OpenReturned(p)
           /\ to_str(p).some
           /\ to_str(p).val \notin Range(stored)
           /\ last'.write # "rejected")
          => /\ last'.result = "Ok"
             /\ stored' = Append(stored, to_str(p).val)]_vars

\* A new path was appended behind at least one earlier entry.
C3_Witness ==
    /\ last.open /\ ~last.present /\ last.result = "Ok"
    /\ Len(stored) >= 2
    /\ stored[Len(stored)] = to_str(last.path.val).val

\* C4: close_collection(path) removes every entry equal to path from the
\* persisted list and keeps the others in their order; open("A"), open("B"),
\* close("A") from an empty list leaves ["B"].
C4_CloseRemoves ==
    [][\A s \in PathStrings :
          CloseReturned(s)
          => /\ stored' = Without(stored, s)
             /\ s \notin Range(stored')
             /\ (stored = << <<"a", "x">>, <<"b">> >> /\ s = <<"a", "x">>
                   => stored' = << <<"b">> >>)]_vars

\* C5: close_collection of a path that is not in the persisted list returns
\* normally and leaves the list unchanged, and a close of the same path right
\* after a close of it leaves the list as the first close left it.
C5_CloseIdempotent ==
    [][\A s \in PathStrings :
          CloseReturned(s)
          => /\ last'.result = "Ok"
             /\ (s \notin Range(stored) => stored' = stored)
             /\ ((last.op = "close_collection" /\ last.path = Some(s))
                   => stored' = stored)]_vars

\* C6: once the window is up, after every call (successful or not) the
\* paths of the persisted list and the paths of the sidebar's roots are the
\* same set.
C6_RootsMatchRegistry ==
    phase = "ready" => Range(RootPaths(roots)) = Range(stored)

\* An open failed on its write while the list has entries.
C6_Witness ==
    /\ phase = "ready" /\ last.open /\ last.write = "rejected"
    /\ Len(stored) >= 1

C8_PersistBeforeCommit ==
    ((last.open \/ last.op = "close_collection")
       /\ (last.synced \/ last.result = "Ok"))
    => last.write = "ok"

\* C9: when the store rejects the write of the list during an open, the
\* caller gets PersistenceFailure and the path counts as open in memory.
C9_PersistenceFailure ==
    (last.open /\ last.write = "rejected")
    => /\ last.result = "PersistenceFailure"
       /\ to_str(last.path.val).val \in Range(RootPaths(roots))

\* C10: an open-collection task whose dialog is dismissed returns
\* FileDialogError, and neither its start nor its return changes the
\* persisted list, the remembered directories, the saved files or the roots.
C10_CancelChangesNothing ==
    [][/\ Started => UNCHANGED Registry
       /\ CancelReturned
          => (last'.result = "FileDialogError" /\ UNCHANGED Registry)]_vars

\* A dialog was dismissed while a directory is remembered and the list has
\* entries.
C10_Witness ==
    /\ last.op = "trigger_open_collection" /\ last.path = None
    /\ last.result = "FileDialogError"
    /\ lastDirOpen.some /\ Len(stored) >= 1

----------------------------------------------------------------------------
(* Properties of the entity model, under SpecEntity *)

\* A Collection method returned in this step; eret' describes it.
EReturned(op) == evars' # evars /\ eret'.op = op

\* C11: after n add_variable calls on a new collection, variable_count()
\* is n and variable_get(i), 0 <= i < n, is the i-th item handed in, all four
\* of its fields as they were; the calls that returned last agree.
C11_AppendedInOrder ==
    pure =>
      /\ variable_count(variables) = Len(added)
      /\ \A i \in 0..(Len(added) - 1) :
            /\ variable_get(variables, i).some
            /\ variable_get(variables, i).val = added[i + 1]
      /\ (eret.op = "variable_count" => eret.value = Count(Len(added)))
      /\ ((eret.op = "variable_get" /\ eret.pos.val < Len(added))
            => eret.value = Some(added[eret.pos.val + 1]))

\* Three items were appended, the first and last different, and the last
\* was read back.
C11_Witness ==
    /\ pure /\ Len(added) = 3 /\ added[1] # added[3]
    /\ eret.op = "variable_get" /\ eret.pos = Some(2)
    /\ eret.value = Some(added[3])

\* C12: variable_del(i) with 0 <= i < n returns the item that was at index
\* i and leaves n-1 items: those before i where they were, those after i
\* one index lower.
C12_DeleteShifts ==
    [][\A i \in Positions :
          (EReturned("variable_del") /\ eret'.pos = Some(i) /\ i < Len(variables))
          => /\ eret'.value = Some(variables[i + 1])
             /\ Len(variables') = Len(variables) - 1
             /\ \A j \in 0..(i - 1) : variables'[j + 1] = variables[j + 1]
             /\ \A j \in i..(Len(variables) - 2) :
                   variables'[j + 1] = variables[j + 2]]_evars

\* The middle one of three different items was deleted.
C12_Witness ==
    /\ eret.op = "variable_del" /\ eret.pos = Some(1) /\ eret.value.some
    /\ Len(variables) = 2
    /\ variables[1] # variables[2]
    /\ eret.value.val \notin { variables[1], variables[2] }

\* C13: variable_get(i) and variable_del(i) with i >= variable_count(), the
\* empty sequence included, return None and leave the sequence as it was;
\* variable_get never changes it.
C13_NotFound ==
    [][/\ EReturned("variable_get") => variables' = variables
       /\ \A i \in Positions :
            (/\ EReturned("variable_get") \/ EReturned("variable_del")
             /\ eret'.pos = Some(i)
             /\ i >= Len(variables))
            => /\ eret'.value = None
               /\ variables' = variables
               /\ variable_count(variables') = variable_count(variables)]_evars

\* A delete past the end of a sequence that has items found nothing.
C13_Witness ==
    /\ eret.op = "variable_del" /\ eret.value = None
    /\ Len(variables) >= 1 /\ eret.pos.val >= Len(variables)

----------------------------------------------------------------------------
(* Properties of the sidebar tree, under SpecTree *)

\* A tree or pane handler ran in this step; tlast' describes it.
TReturned(op) == treevars' # treevars /\ tlast'.op = op

\* The objects shown under root i of the flat view, in order.
ShownChildren(i) ==
    [k \in 1..Len(ChildRows(nodes, i)) |-> ChildRows(nodes, i)[k].item.val.obj]

\* The row of root i in the flat view.
RootRow(i) ==
    Row(Some(Object("Collection", roots[i])), 0, nodes[i].expanded, i)

\* C14: an expanded Collection node whose children are [x, y] shows exactly
\* the two rows x, y below its own row, in that order, also after it was
\* collapsed and expanded again.
C14_ExpandShowsChildren ==
    \A i \in 1..Len(roots) :
       (nodes[i].expanded /\ Len(variables_of(roots[i])) = 2)
       => ShownChildren(i) = variables_of(roots[i])

\* C15: activating a Collection row sends one open-collection signal and no
\* open-leaf signal; activating a leaf row sends one open-leaf signal and no
\* open-collection signal.
C15_ActivationDispatch ==
    tlast.op = "activate" =>
      /\ (tlast.type = "Collection"
            => tlast.open_collection = 1 /\ tlast.open_leaf = 0)
      /\ (tlast.type = "KeyValueItem"
            => tlast.open_leaf = 1 /\ tlast.open_collection = 0)

\* C16: append_collection adds the collection as the last root and one
\* trailing, collapsed depth-0 row to the flat view; insert_collections
\* appends its elements in iteration order; a collection equal in name, or
\* the same one again, is one more root, and nothing is sorted or left out.
C16_AppendRoots ==
    [][/\ TReturned("append_collection")
          => LET col == tlast'.cols[1]
             IN  /\ roots' = Append(roots, col)
                 /\ nodes'[Len(roots')] = Collapsed
                 /\ Rows(roots', nodes') =
                      Append(Rows(roots, nodes),
                             Row(Some(Object("Collection", col)), 0, FALSE,
                                 Len(roots) + 1))
       /\ TReturned("insert_collections")
          => /\ roots' = roots \o tlast'.cols
             /\ \A k \in 1..Len(tlast'.cols) :
                   /\ nodes'[Len(roots) + k] = Collapsed
                   /\ Rows(roots', nodes')[Len(Rows(roots, nodes)) + k] =
                        Row(Some(Object("Collection", tlast'.cols[k])), 0, FALSE,
                            Len(roots) + k)
             /\ Len(Rows(roots', nodes')) =
                  Len(Rows(roots, nodes)) + Len(tlast'.cols)]_treevars

\* Two collections of one name were inserted, the later path first.
C16_Witness ==
    /\ tlast.op = "insert_collections" /\ Len(tlast.cols) = 2
    /\ roots = << Collection(<<"a", "y">>), Collection(<<"a", "x">>) >>
    /\ name_of(roots[1]) = name_of(roots[2])
    /\ Len(Rows(roots, nodes)) = 2

\* C17: a save request on a pane whose collection has been released fails
\* with StaleReference and does not crash.
C17_StaleReference ==
    (tlast.op = "save_requested" /\ ~tlast.alive)
    => (tlast.result = "StaleReference" /\ ~crashed)

C19_NodeStateMachine ==
    /\ [](\A i \in 1..Len(roots) :
            ~nodes[i].expanded
            => (nodes[i].children = None /\ ChildRows(nodes, i) = << >>))
    /\ [][/\ \A op \in {"append_collection", "insert_collections", "sync_collections"} :
               TReturned(op)
               => \A i \in 1..Len(roots') :
                     (op = "sync_collections" \/ i > Len(roots))
                     => nodes'[i] = Collapsed
          /\ \A i \in 1..Len(roots) :
               (i <= Len(roots') /\ nodes[i].children = None /\ nodes'[i].children.some)
               => (TReturned("toggle") /\ tlast'.root = i /\ tlast'.built
                   /\ nodes'[i].expanded)
          /\ \A i \in 1..Len(roots) :
               (TReturned("toggle") /\ tlast'.root = i
                /\ Rows(roots, nodes)[tlast'.pos + 1].depth = 0)
               => IF nodes[i].expanded
                  THEN /\ nodes'[i] = Collapsed
                       /\ ~tlast'.built
                       /\ Len(Rows(roots', nodes')) =
                            Len(Rows(roots, nodes)) - Len(nodes[i].children.val)
                  ELSE /\ tlast'.built
                       /\ nodes'[i].expanded
                       /\ nodes'[i].children =
                            create_func(Object("Collection", roots[i]))]_treevars

\* A root was expanded by its toggle and shows a child row, next to a root
\* that is collapsed.
C19_Witness ==
    /\ tlast.op = "toggle" /\ tlast.built
    /\ Len(roots) = 2
    /\ nodes[1].expanded /\ nodes[1].children.some
    /\ ~nodes[2].expanded
    /\ Len(Rows(roots, nodes)) > Len(roots)

\* C20: an expanded Collection node that has no children shows no rows
\* below its own row.
C20_ExpandEmpty ==
    \A i \in 1..Len(roots) :
       (nodes[i].expanded /\ variables_of(roots[i]) = << >>)
       => ChildRows(nodes, i) = << >>

\* A row that shows a leaf: its item is not a Collection.
LeafRow(row) == row.item.val.type # "Collection"

\* C21: create_func gives a child model for a Collection and none for a
\* KeyValueItem or an Endpoint, and in every state every row of the flat
\* view has depth 0 or 1, no leaf node has a child model, and no leaf row
\* is expanded or followed by rows below it.
C21_TwoLevels ==
    /\ \A type \in ObjectTypes :
          create_func(Object(type, Placeholder)).some <=> (type = "Collection")
    /\ \A i \in 1..Len(roots) :
          /\ create_func(Object("Collection", roots[i])).some
          /\ \A k \in 1..Len(nodes[i].sub) :
                nodes[i].sub[k] = Collapsed
    /\ LET rows == Rows(roots, nodes)
       IN  \A p \in 1..Len(rows) :
              /\ rows[p].depth \in {0, 1}
              /\ LeafRow(rows[p])
                 => /\ rows[p].depth = 1
                    /\ ~rows[p].expanded
                    /\ (p < Len(rows) => rows[p + 1].depth <= rows[p].depth)

\* The expander of a leaf row, shown under its expanded root and above
\* another root, was toggled, and no child model was built.
C21_Witness ==
    /\ tlast.op = "toggle" /\ ~tlast.built
    /\ Len(roots) = 2
    /\ tlast.pos < Len(Rows(roots, nodes))
    /\ LeafRow(Rows(roots, nodes)[tlast.pos + 1])
    /\ Rows(roots, nodes)[tlast.pos + 1].depth = 1
    /\ Rows(roots, nodes)[tlast.pos + 2].depth = 0

\* finish_create_collection(p) returned in this step.
CreateReturned(p) ==
    Returned /\ last'.op = "finish_create_collection" /\ last'.path = Some(p)

\* C23: finish_create_collection on a path that is in the persisted list
\* returns AlreadyOpened and leaves the list and the roots as they were, and
\* by then save_collection has written a collection file to that path: every
\* call that gets as far as the duplicate check has written the file; a call
\* whose save_collection fails writes no file and leaves the list and the
\* roots as they were.
C23_SaveBeforeCheck ==
    [][\A p \in CreatePaths :
          CreateReturned(p)
          => /\ (last'.result = "SaveError")
                => (~last'.open /\ UNCHANGED <<stored, roots, saved>>)
             /\ (last'.result # "SaveError")
                => (last'.open /\ saved' = saved \cup {p})
             /\ (to_str(p).val \in Range(stored))
                => /\ last'.result \in {"AlreadyOpened", "SaveError"}
                   /\ stored' = stored
                   /\ roots' = roots
                   /\ (last'.result = "AlreadyOpened" => p \in saved')]_vars

\* A collection was created at the path of the first of two open
\* collections: AlreadyOpened, and that path is the only one written to.
C23_Witness ==
    /\ last.op = "finish_create_collection" /\ last.present
    /\ last.result = "AlreadyOpened" /\ last.write = "none"
    /\ Len(stored) = 2 /\ Len(roots) = 2
    /\ stored[1] = to_str(last.path.val).val
    /\ saved = { last.path.val }

\* A task given the folder p returns in this step without having reached
\* finish_open_collection: the codec could not read the collection.
CodecFailed(p) ==
    /\ \E t \in Tasks : pc[t] = "dialog" /\ pc'[t] = "idle"
    /\ last'.op = "trigger_open_collection"
    /\ last'.path = Some(p) /\ ~last'.open

\* C24, as claimed: when the dialog gives a folder and the codec cannot read
\* the collection, the task returns the codec's error, the persisted list
\* and the roots are as they were, and last-directory-open-collection has
\* been overwritten with the folder's parent.
C24_Overwritten ==
    [][\A p \in Paths :
          CodecFailed(p)
          => /\ last'.result = "CodecError"
             /\ last'.write = "none" /\ ~last'.synced
             /\ stored' = stored
             /\ roots' = roots
             /\ lastDirOpen' = parent_str(p)]_vars

\* C24, amended: when the dialog gives a folder and the codec cannot read
\* the collection, the task returns the codec's error, the persisted list
\* and the roots are as they were, and the write of the folder's parent to
\* last-directory-open-collection has been made: the setting holds the
\* parent when the store took that write, and its old value when the store
\* rejected it.
C24_CodecFailure ==
    [][\A p \in Paths :
          CodecFailed(p)
          => /\ last'.result = "CodecError"
             /\ last'.write = "none" /\ ~last'.synced
             /\ stored' = stored
             /\ roots' = roots
             /\ lastDirOpen' \in {parent_str(p), lastDirOpen}
             /\ \A t \in Tasks :
                   (pc[t] = "dialog" /\ pc'[t] = "idle")
                   => /\ DialogSelect(t, p, TRUE, FALSE, TRUE)
                         => lastDirOpen' = parent_str(p)
                      /\ DialogSelect(t, p, FALSE, FALSE, TRUE)
                         => lastDirOpen' = lastDirOpen]_vars

\* The codec failed on a folder that is not in the list of two entries;
\* the remembered directory is that folder's parent and the roots still
\* show the two entries.
C24_Witness ==
    /\ last.op = "trigger_open_collection" /\ ~last.open
    /\ last.result = "CodecError"
    /\ last.path = Some(<<"b">>)
    /\ lastDirOpen = parent_str(<<"b">>)
    /\ stored = << <<"a", "x">>, <<"a", "y">> >>
    /\ RootPaths(roots) = stored

----------------------------------------------------------------------------
(* Properties of the open-collection tasks, under SpecTasks *)

\* How many entries of list equal s.
Occurrences(list, s) == Cardinality({ i \in 1..Len(list) : list[i] = s })

\* Task t resumes in this step with the folder p, having been suspended in
\* its dialog while the call that returned before it, another task given the
\* same folder, ran.
SecondOfTwo(t, p) ==
    /\ pc[t] = "dialog" /\ pc'[t] = "idle"
    /\ last'.op = "trigger_open_collection" /\ last'.path = Some(p)
    /\ t \in overlap.waiting
    /\ last.op = "trigger_open_collection" /\ last.path = Some(p)

\* C22, as claimed: of two open-collection tasks suspended in their dialogs
\* at the same time and both given the same folder, exactly one succeeds and
\* the other returns AlreadyOpened, and the persisted list holds the path
\* exactly once.
C22_ExactlyOne ==
    [][\A t \in Tasks, p \in Paths :
          SecondOfTwo(t, p)
          => /\ \/ last.result = "Ok" /\ last'.result = "AlreadyOpened"
                \/ last.result = "AlreadyOpened" /\ last'.result = "Ok"
             /\ to_str(p).some
             /\ Occurrences(stored', to_str(p).val) = 1]_vars

\* C22, amended: of two open-collection tasks suspended in their dialogs at
\* the same time and both given the same folder, never both succeed and the
\* persisted list never holds the path twice. When the path is valid and was
\* not in the list, the codec reads the collection for both and the store
\* accepts the first write, the first to resume succeeds, the other returns
\* AlreadyOpened and writes nothing, and the list holds the path exactly
\* once. When the path was in the list already, both that reach the check
\* return AlreadyOpened. A task whose codec read fails, whose path is not
\* valid or whose write the store rejects fails and leaves the list as it
\* was, and the other fares as a single open on that list does. A task reads
\* and writes the list only in the step in which it resumes.
C22_RaceOneWins ==
    [][/\ Started => stored' = stored
       /\ \A t \in overlap.waiting, p \in Paths :
            SecondOfTwo(t, p)
            => /\ overlap'.raced
               /\ ~(last.result = "Ok" /\ last'.result = "Ok")
               /\ (to_str(p).some => Occurrences(stored', to_str(p).val) <= 1)
               /\ (/\ to_str(p).some
                   /\ last.open /\ ~last.present /\ last.write = "ok"
                   /\ last'.open)
                  => /\ last.result = "Ok"
                     /\ last'.result = "AlreadyOpened"
                     /\ last'.write = "none"
                     /\ stored' = stored
                     /\ roots' = roots
                     /\ Occurrences(stored', to_str(p).val) = 1
               /\ (last.open /\ last.present /\ last'.open)
                  => /\ last.result = "AlreadyOpened"
                     /\ last'.result = "AlreadyOpened"
                     /\ stored' = stored
               /\ (last.result # "Ok")
                  => /\ last.write # "ok"
                     /\ (last.open /\ to_str(p).some /\ ~last.present)
                        => to_str(p).val \notin Range(stored)
               /\ (~last'.open)
                  => (last'.result = "CodecError" /\ stored' = stored)
               /\ (last'.open /\ ~to_str(p).some)
                  => (last'.result = "FileDialogError" /\ stored' = stored)
               /\ (last'.open /\ to_str(p).some)
                  => IF to_str(p).val \in Range(stored)
                     THEN last'.result = "AlreadyOpened" /\ stored' = stored
                     ELSE IF last'.write = "ok"
                     THEN /\ last'.result = "Ok"
                          /\ stored' = Append(stored, to_str(p).val)
                     ELSE /\ last'.write = "rejected"
                          /\ last'.result = "FileDialogError"
                          /\ stored' = stored]_vars

\* The second of two tasks that were suspended together and given the same
\* folder has returned AlreadyOpened; the path, appended by the first, is
\* the last of two entries.
C22_Witness ==
    /\ overlap.raced
    /\ last.op = "trigger_open_collection" /\ last.open /\ last.present
    /\ last.result = "AlreadyOpened"
    /\ Len(stored) = 2
    /\ stored[2] = to_str(last.path.val).val
    /\ Occurrences(stored, stored[2]) = 1
    /\ \A t \in Tasks : pc[t] = "idle"

====
